---- MODULE Spec2Model ----
(***************************************************************************)
(* Debit card replacement service agent (adk_agents/service_agent.py).     *)
(*                                                                         *)
(* A Python str is modelled as a sequence of characters.  A character is   *)
(* a one-character TLA+ string; the characters outside ASCII that matter   *)
(* to str.isdigit and str.strip are named by their code point:             *)
(*   "U+00B2"  SUPERSCRIPT TWO          (isdigit, not a decimal digit)     *)
(*   "U+0663"  ARABIC-INDIC DIGIT THREE (isdigit, decimal, not ASCII)      *)
(*   "U+00A0"  NO-BREAK SPACE           (isspace)                          *)
(* A Python dict is modelled as a record with the same keys.               *)
(***************************************************************************)
EXTENDS Integers, Sequences, FiniteSets, TLC

VARIABLES fields, calls, rngDraws,
          handlers,
          client, clientLog, ipc,
          dpc, procs, registered, dresult, cleanups

agentVars == <<fields, calls>>
clientVars == <<client, clientLog, ipc>>
demoVars == <<dpc, procs, registered, dresult, cleanups>>

vars == <<fields, calls, rngDraws, handlers, clientVars, demoVars>>

-----------------------------------------------------------------------------
(* Python's string module and str methods                                  *)

ascii_uppercase ==
    <<"A","B","C","D","E","F","G","H","I","J","K","L","M",
      "N","O","P","Q","R","S","T","U","V","W","X","Y","Z">>

ascii_lowercase ==
    <<"a","b","c","d","e","f","g","h","i","j","k","l","m",
      "n","o","p","q","r","s","t","u","v","w","x","y","z">>

digits == <<"0","1","2","3","4","5","6","7","8","9">>

Range(s) == {s[i] : i \in 1..Len(s)}

\* Characters for which str.isdigit() is true: Unicode Numeric_Type Digit or
\* Decimal, which is more than '0'..'9'.
DigitChars == Range(digits) \cup {"U+00B2", "U+0663"}

\* Characters for which str.isspace() is true (the ones str.strip() removes).
WhitespaceChars == {" ", "\t", "\n", "U+00A0"}

\* str.isdigit(): all characters are digits and there is at least one.
isdigit(s) == Len(s) > 0 /\ \A i \in 1..Len(s) : s[i] \in DigitChars

RECURSIVE lstrip(_)
lstrip(s) ==
    IF s # <<>> /\ Head(s) \in WhitespaceChars THEN lstrip(Tail(s)) ELSE s

RECURSIVE rstrip(_)
rstrip(s) ==
    IF s # <<>> /\ s[Len(s)] \in WhitespaceChars
    THEN rstrip(SubSeq(s, 1, Len(s) - 1))
    ELSE s

\* str.strip(): leading and trailing whitespace removed.
strip(s) == rstrip(lstrip(s))

LowerChar(c) ==
    IF \E i \in 1..Len(ascii_uppercase) : ascii_uppercase[i] = c
    THEN ascii_lowercase[CHOOSE i \in 1..Len(ascii_uppercase) : ascii_uppercase[i] = c]
    ELSE c

\* str.lower()
lower(s) == [i \in 1..Len(s) |-> LowerChar(s[i])]

-----------------------------------------------------------------------------
(* validate_card_details                                                   *)

ErrDigits == "Last 4 digits must be exactly 4 numeric characters"
ErrName == "Cardholder name must be at least 2 characters"
ErrAddress == "Address must be at least 10 characters"
ErrReason == "Replacement reason must be one of: lost, stolen, damaged, expired"

CardDigits == 4
MinNameLen == 2
MinAddressLen == 10

valid_reasons ==
    << <<"l","o","s","t">>,
       <<"s","t","o","l","e","n">>,
       <<"d","a","m","a","g","e","d">>,
       <<"e","x","p","i","r","e","d">> >>

\* The four `if` conditions, each true when its error is appended.
DigitsRejected(last_four_digits) ==
    last_four_digits = <<>> \/ Len(last_four_digits) # CardDigits
        \/ ~isdigit(last_four_digits)

NameRejected(cardholder_name) ==
    cardholder_name = <<>> \/ Len(strip(cardholder_name)) < MinNameLen

AddressRejected(address) ==
    address = <<>> \/ Len(strip(address)) < MinAddressLen

ReasonRejected(replacement_reason) ==
    replacement_reason = <<>> \/ lower(replacement_reason) \notin Range(valid_reasons)

\* errors = []; four independent `if ...: errors.append(...)`.
ValidationErrors(last_four_digits, cardholder_name, address, replacement_reason) ==
    (IF DigitsRejected(last_four_digits) THEN <<ErrDigits>> ELSE <<>>)
    \o (IF NameRejected(cardholder_name) THEN <<ErrName>> ELSE <<>>)
    \o (IF AddressRejected(address) THEN <<ErrAddress>> ELSE <<>>)
    \o (IF ReasonRejected(replacement_reason) THEN <<ErrReason>> ELSE <<>>)

\* Variants of validate_card_details, each with one slip (not the program).
\* The valid result returns the name and the address as given, untrimmed.
validate_no_strip(last_four_digits, cardholder_name, address, replacement_reason) ==
    LET errors == ValidationErrors(last_four_digits, cardholder_name, address,
                                   replacement_reason)
    IN  IF errors # <<>>
        THEN [valid |-> FALSE, errors |-> errors, status |-> "validation_failed"]
        ELSE [valid |-> TRUE,
              last_four_digits |-> last_four_digits,
              cardholder_name |-> cardholder_name,
              address |-> address,
              replacement_reason |-> lower(replacement_reason),
              status |-> "validated"]

\* The valid result returns the reason as given, not lowercased.
validate_keeps_case(last_four_digits, cardholder_name, address, replacement_reason) ==
    LET errors == ValidationErrors(last_four_digits, cardholder_name, address,
                                   replacement_reason)
    IN  IF errors # <<>>
        THEN [valid |-> FALSE, errors |-> errors, status |-> "validation_failed"]
        ELSE [valid |-> TRUE,
              last_four_digits |-> last_four_digits,
              cardholder_name |-> strip(cardholder_name),
              address |-> strip(address),
              replacement_reason |-> replacement_reason,
              status |-> "validated"]

\* The invalid result also returns the fields that were given.
validate_echoes_fields(last_four_digits, cardholder_name, address, replacement_reason) ==
    LET errors == ValidationErrors(last_four_digits, cardholder_name, address,
                                   replacement_reason)
    IN  IF errors # <<>>
        THEN [valid |-> FALSE, errors |-> errors, status |-> "validation_failed",
              last_four_digits |-> last_four_digits,
              cardholder_name |-> strip(cardholder_name),
              address |-> strip(address),
              replacement_reason |-> lower(replacement_reason)]
        ELSE [valid |-> TRUE,
              last_four_digits |-> last_four_digits,
              cardholder_name |-> strip(cardholder_name),
              address |-> strip(address),
              replacement_reason |-> lower(replacement_reason),
              status |-> "validated"]

\* `errors` is a module-level list shared by all calls instead of a local one:
\* each call appends to what the earlier calls left in it.
validate_shared_errors(last_four_digits, cardholder_name, address, replacement_reason) ==
    LET earlier == {i \in 1..Len(calls) :
                       /\ calls[i].tool = "validate_card_details"
                       /\ ~calls[i].result.valid}
        left == IF earlier = {} THEN <<>>
                ELSE calls[CHOOSE i \in earlier : \A j \in earlier : j <= i].result.errors
        errors == left \o ValidationErrors(last_four_digits, cardholder_name, address,
                                           replacement_reason)
    IN  IF errors # <<>>
        THEN [valid |-> FALSE, errors |-> errors, status |-> "validation_failed"]
        ELSE [valid |-> TRUE,
              last_four_digits |-> last_four_digits,
              cardholder_name |-> strip(cardholder_name),
              address |-> strip(address),
              replacement_reason |-> lower(replacement_reason),
              status |-> "validated"]

validate_card_details(last_four_digits, cardholder_name, address, replacement_reason) ==
    LET errors == ValidationErrors(last_four_digits, cardholder_name, address,
                                   replacement_reason)
    IN  IF errors # <<>>
        THEN [valid |-> FALSE, errors |-> errors, status |-> "validation_failed"]
        ELSE [valid |-> TRUE,
              last_four_digits |-> last_four_digits,
              cardholder_name |-> strip(cardholder_name),
              address |-> strip(address),
              replacement_reason |-> lower(replacement_reason),
              status |-> "validated"]

-----------------------------------------------------------------------------
(* issue_replacement_ticket                                                *)

TicketPrefix == <<"T","I","C","K","E","T","-">>
TicketIdChars == 8
DefaultDays == 3

\* Variant: string.ascii_lowercase + string.digits (not the program).
TicketAlphabetLower == ascii_lowercase \o digits

\* string.ascii_uppercase + string.digits
TicketAlphabet == ascii_uppercase \o digits

\* random.choices(population, k=k): k independent draws with replacement;
\* draw[i] is the index floor(random() * len(population)) of the i-th draw.
choices(population, k, draw) == [i \in 1..k |-> population[draw[i] + 1]]

\* Variant: the values of lost and expired exchanged (not the program).
processing_days_exchanged ==
    { << <<"l","o","s","t">>, 5 >>,
      << <<"s","t","o","l","e","n">>, 1 >>,
      << <<"d","a","m","a","g","e","d">>, 2 >>,
      << <<"e","x","p","i","r","e","d">>, 3 >> }

\* The processing_days dict, as the set of its (key, value) items.
processing_days ==
    { << <<"l","o","s","t">>, 3 >>,
      << <<"s","t","o","l","e","n">>, 1 >>,
      << <<"d","a","m","a","g","e","d">>, 2 >>,
      << <<"e","x","p","i","r","e","d">>, 5 >> }

\* dict.get(key, default)
DictGet(dict, key, default) ==
    IF \E kv \in dict : kv[1] = key
    THEN (CHOOSE kv \in dict : kv[1] = key)[2]
    ELSE default

ProcessingDays(replacement_reason) ==
    DictGet(processing_days, lower(replacement_reason), DefaultDays)

\* Variant: the issuer validates its arguments again and refuses the ones the
\* validator rejects (not the program).
issue_with_revalidation(last_four_digits, cardholder_name, address, replacement_reason, draw) ==
    LET ticket_id == TicketPrefix \o choices(TicketAlphabet, TicketIdChars, draw)
        days == ProcessingDays(replacement_reason)
        checked == validate_card_details(last_four_digits, cardholder_name, address,
                                         replacement_reason)
    IN  IF ~checked.valid
        THEN checked
        ELSE [ticket_id |-> ticket_id,
              status |-> "issued",
              cardholder_name |-> cardholder_name,
              last_four_digits |-> last_four_digits,
              replacement_reason |-> replacement_reason,
              estimated_processing_days |-> days,
              message |-> <<"Replacement ticket ", ticket_id,
                            " issued successfully. New card will arrive in ", days,
                            " business days.">>]

\* Variant: the issuer keeps a registry of the ids it issued and draws again
\* (here: the next index in every position) until the id is a new one (not the
\* program).
issue_with_registry(last_four_digits, cardholder_name, address, replacement_reason, draw) ==
    LET issued == {calls[i].result.ticket_id :
                      i \in {j \in 1..Len(calls) :
                                calls[j].tool = "issue_replacement_ticket"}}
        Redrawn(k) == [i \in 1..TicketIdChars |-> (draw[i] + k) % Len(TicketAlphabet)]
        Id(k) == TicketPrefix \o choices(TicketAlphabet, TicketIdChars, Redrawn(k))
        fresh == {k \in 0..(Len(TicketAlphabet) - 1) : Id(k) \notin issued}
        ticket_id == Id(CHOOSE k \in fresh : \A m \in fresh : k <= m)
        days == ProcessingDays(replacement_reason)
    IN  [ticket_id |-> ticket_id,
         status |-> "issued",
         cardholder_name |-> cardholder_name,
         last_four_digits |-> last_four_digits,
         replacement_reason |-> replacement_reason,
         estimated_processing_days |-> days,
         message |-> <<"Replacement ticket ", ticket_id,
                       " issued successfully. New card will arrive in ", days,
                       " business days.">>]

issue_replacement_ticket(last_four_digits, cardholder_name, address, replacement_reason, draw) ==
    LET ticket_id == TicketPrefix \o choices(TicketAlphabet, TicketIdChars, draw)
        days == ProcessingDays(replacement_reason)
    IN  [ticket_id |-> ticket_id,
         status |-> "issued",
         cardholder_name |-> cardholder_name,
         last_four_digits |-> last_four_digits,
         replacement_reason |-> replacement_reason,
         estimated_processing_days |-> days,
         message |-> <<"Replacement ticket ", ticket_id,
                       " issued successfully. New card will arrive in ", days,
                       " business days.">>]

-----------------------------------------------------------------------------
(* Bounded inputs                                                          *)

MaxDigitsLen == 5
MaxPad == 1
MaxStride == 1
MaxCalls == 3

ArgKeys == {"last_four_digits", "cardholder_name", "address", "replacement_reason"}

Args(d, n, a, r) ==
    [last_four_digits |-> d, cardholder_name |-> n, address |-> a,
     replacement_reason |-> r]

SampleDigits == <<"4","8","2","9">>
PlainDigits(n) == [i \in 1..n |-> SampleDigits[((i - 1) % Len(SampleDigits)) + 1]]
DigitProbes == {"a", "U+00B2", "U+0663"}

\* Digit strings of every length up to MaxDigitsLen, all ASCII digits or with one
\* character replaced by a letter or by a non-ASCII digit.
DigitInputs ==
    UNION { {PlainDigits(n)}
            \cup {[PlainDigits(n) EXCEPT ![p] = c] : p \in 1..n, c \in DigitProbes}
          : n \in 0..MaxDigitsLen }

LeadChars == <<" ", "\t", "\n", "U+00A0">>
TrailChars == <<"U+00A0", "\n", "\t", " ">>
Pad(chars, n) == [i \in 1..n |-> chars[((i - 1) % Len(chars)) + 1]]
Padded(core) ==
    {Pad(LeadChars, l) \o core \o Pad(TrailChars, t) : l, t \in {0, MaxPad}}

JohnSmith == <<"J","o","h","n"," ","S","m","i","t","h">>
MainStreet == 
    <<"1","2","3"," ","M","a","i","n"," ","S","t","r","e","e","t",","," ","A","n","y","t","o","w","n",","," ","N","Y"," ","1","2","3","4","5">>

NameCores == {<<>>, <<"J">>, <<"J","o">>, <<"J"," ","S">>, JohnSmith}
NameInputs == UNION {Padded(c) : c \in NameCores}

AddressCore(n) == [i \in 1..n |-> IF i = 4 THEN " " ELSE ascii_lowercase[i]]
AddressCores ==
    {<<>>, <<"s","h","o","r","t">>, AddressCore(MinAddressLen - 1),
     AddressCore(MinAddressLen), MainStreet}
AddressInputs == UNION {Padded(c) : c \in AddressCores}

ReasonInputs ==
    Range(valid_reasons)
    \cup {<<>>, <<"L","O","S","T">>, <<"S","T","O","L","E","N">>,
          <<"S","t","o","l","e","n">>, <<" ","l","o","s","t">>,
          <<"l","o","s">>, <<"m","i","s","p","l","a","c","e","d">>}

\* Outcomes of the TicketIdChars index draws: every index in every position.
DrawOutcome(base, stride) ==
    [i \in 1..TicketIdChars |-> (base + (i - 1) * stride) % Len(TicketAlphabet)]
DrawOutcomes ==
    {DrawOutcome(b, s) : b \in 0..(Len(TicketAlphabet) - 1), s \in 0..MaxStride}
SessionDraws == {DrawOutcome(0, 0), DrawOutcome(Len(TicketAlphabet) - 1, MaxStride)}

\* Arguments of the direct issue calls.
IssueInputs ==
    {Args(d, n, a, r) :
        d \in {SampleDigits, <<"4","8">>, <<"4","8","2","U+00B2">>},
        n \in {JohnSmith, <<"J">>},
        a \in {MainStreet, <<"s","h","o","r","t">>},
        r \in ReasonInputs}

\* Requests the agent receives.
Requests ==
    {Args(d, n, a, r) :
        d \in {SampleDigits, <<"4","8">>, <<"4","8","2","U+00B2">>},
        n \in {JohnSmith, <<" ">> \o JohnSmith \o <<"\t">>, <<"J">>},
        a \in {MainStreet, <<"s","h","o","r","t">>},
        r \in Range(valid_reasons)
              \cup {<<"S","T","O","L","E","N">>,
                    <<"m","i","s","p","l","a","c","e","d">>}}

-----------------------------------------------------------------------------
(* State                                                                   *)
(*   fields    the four fields of the request in hand, once received       *)
(*   calls     the tool calls made so far, in order, with their results    *)
(*   rngDraws  how many values the process-wide random generator has given *)
(*   handlers  the requests being handled concurrently, each with the      *)
(*             position and the locals of its validate / issue call        *)
(*   client, clientLog, ipc   the AutonomousA2AClient object, the calls    *)
(*             made on it, the position of run_autonomous_interaction      *)
(*   dpc, procs, registered, dresult, cleanups   run_demo: its position,   *)
(*             the agent processes, self.processes, the value returned,    *)
(*             the number of cleanup() calls                               *)

NoRequest == [received |-> FALSE]

MaxHandlers == 2
Handlers == 1..MaxHandlers
NoResult == [none |-> TRUE]
IdleHandler ==
    [pc |-> "idle", args |-> NoResult, errors |-> <<>>, ticket_id |-> <<>>,
     validated |-> NoResult, ticket |-> NoResult, overlapped |-> FALSE]

\* AutonomousA2AClient.__init__: service_client = None.  `http` is the state of
\* the httpx.AsyncClient the service_client was built on.
NewClient == [service_client |-> "None", http |-> "none"]

Agents == {"service_agent.py", "user_agent.py"}

ValidateCall(args) ==
    [tool |-> "validate_card_details", args |-> args,
     result |-> validate_card_details(args.last_four_digits, args.cardholder_name,
                                      args.address, args.replacement_reason)]

IssueCall(args, draw) ==
    [tool |-> "issue_replacement_ticket", args |-> args,
     result |-> issue_replacement_ticket(args.last_four_digits, args.cardholder_name,
                                         args.address, args.replacement_reason, draw)]

Init ==
    /\ fields = NoRequest
    /\ calls = <<>>
    /\ rngDraws = 0
    /\ handlers = [h \in Handlers |-> IdleHandler]
    /\ client = NewClient
    /\ clientLog = <<>>
    /\ ipc = "idle"
    /\ dpc = "main"
    /\ procs = [a \in Agents |-> "none"]
    /\ registered = <<>>
    /\ dresult = "none"
    /\ cleanups = 0

\* The functions called directly, once, on any arguments.
CallValidate ==
    /\ ~fields.received /\ calls = <<>>
    /\ \E d \in DigitInputs, n \in NameInputs, a \in AddressInputs, r \in ReasonInputs :
          calls' = <<ValidateCall(Args(d, n, a, r))>>
    /\ UNCHANGED <<fields, rngDraws, handlers, clientVars, demoVars>>

CallIssue ==
    /\ ~fields.received /\ calls = <<>>
    /\ \E args \in IssueInputs, draw \in DrawOutcomes :
          calls' = <<IssueCall(args, draw)>>
    /\ rngDraws' = rngDraws + TicketIdChars
    /\ UNCHANGED <<fields, handlers, clientVars, demoVars>>

\* service_agent: the model extracts the four fields from the request, then calls
\* the tools of its `tools` list.  The instruction asks for validation first and a
\* ticket only when it passes; nothing in the agent or in the tools enforces it.
ReceiveRequest ==
    /\ ~fields.received /\ calls = <<>>
    /\ \E req \in Requests :
          fields' = [received |-> TRUE] @@ req
    /\ UNCHANGED <<calls, rngDraws, handlers, clientVars, demoVars>>

RequestArgs == [k \in ArgKeys |-> fields[k]]

\* The normalized fields of the validations that passed so far.
ValidatedArgs ==
    {[k \in ArgKeys |-> calls[j].result[k]] :
        j \in {i \in 1..Len(calls) :
                  calls[i].tool = "validate_card_details" /\ calls[i].result.valid}}

ToolValidate ==
    /\ fields.received /\ Len(calls) < MaxCalls
    /\ calls' = Append(calls, ValidateCall(RequestArgs))
    /\ UNCHANGED <<fields, rngDraws, handlers, clientVars, demoVars>>

\* The ticket tool called with the fields as received.
ToolIssueRaw ==
    /\ fields.received /\ Len(calls) < MaxCalls
    /\ \E draw \in SessionDraws :
          calls' = Append(calls, IssueCall(RequestArgs, draw))
    /\ rngDraws' = rngDraws + TicketIdChars
    /\ UNCHANGED <<fields, handlers, clientVars, demoVars>>

\* The ticket tool called with the fields a passed validation returned.
ToolIssueValidated ==
    /\ fields.received /\ Len(calls) < MaxCalls
    /\ \E args \in ValidatedArgs, draw \in SessionDraws :
          calls' = Append(calls, IssueCall(args, draw))
    /\ rngDraws' = rngDraws + TicketIdChars
    /\ UNCHANGED <<fields, handlers, clientVars, demoVars>>

Next == ReceiveRequest \/ ToolValidate \/ ToolIssueRaw \/ ToolIssueValidated

Spec == Init /\ [][Next]_vars

NextTools == CallValidate \/ CallIssue

SpecTools == Init /\ [][NextTools]_vars

-----------------------------------------------------------------------------
(* Requests handled concurrently: each handler runs validate_card_details   *)
(* and then issue_replacement_ticket statement by statement, and the        *)
(* statements of different handlers interleave.                             *)

HandlerRequests ==
    { Args(SampleDigits, JohnSmith, MainStreet, <<"l","o","s","t">>),
      Args(SampleDigits, <<" ">> \o JohnSmith \o <<"\t">>, MainStreet,
           <<"S","T","O","L","E","N">>),
      Args(<<"4","8">>, <<"J">>, <<"s","h","o","r","t">>,
           <<"m","i","s","p","l","a","c","e","d">>) }

\* Variant: `errors` is one module-level list used by every call (not the
\* program).
ErrorsShared(h) == 1

\* `errors` is a local of the call: each call appends to its own list.
ErrorsOwner(h) == h

\* A handler is inside a call.
InCall(h) == handlers[h].pc \notin {"idle", "validated", "done"}

\* Handler h moves to position pc with its `errors` list set to errs.
Advance(h, pc, errs) ==
    handlers' = [handlers EXCEPT
                    ![h].pc = pc,
                    ![h].overlapped = @ \/ \E g \in Handlers \ {h} : InCall(g),
                    ![ErrorsOwner(h)].errors = errs]

ErrorsOf(h) == handlers[ErrorsOwner(h)].errors

\* The two return statements of validate_card_details.
ValidationResult(errors, args) ==
    IF errors # <<>>
    THEN [valid |-> FALSE, errors |-> errors, status |-> "validation_failed"]
    ELSE [valid |-> TRUE,
          last_four_digits |-> args.last_four_digits,
          cardholder_name |-> strip(args.cardholder_name),
          address |-> strip(args.address),
          replacement_reason |-> lower(args.replacement_reason),
          status |-> "validated"]

\* The return statement of issue_replacement_ticket.
TicketResult(ticket_id, days, args) ==
    [ticket_id |-> ticket_id,
     status |-> "issued",
     cardholder_name |-> args.cardholder_name,
     last_four_digits |-> args.last_four_digits,
     replacement_reason |-> args.replacement_reason,
     estimated_processing_days |-> days,
     message |-> <<"Replacement ticket ", ticket_id,
                   " issued successfully. New card will arrive in ", days,
                   " business days.">>]

HandleRequest(h) ==
    /\ handlers[h].pc = "idle"
    /\ \E req \in HandlerRequests :
          handlers' = [handlers EXCEPT ![h].pc = "v_begin", ![h].args = req]
    /\ UNCHANGED <<agentVars, rngDraws, clientVars, demoVars>>

\* errors = []
ValidateBegin(h) ==
    /\ handlers[h].pc = "v_begin"
    /\ Advance(h, "v_digits", <<>>)
    /\ UNCHANGED <<agentVars, rngDraws, clientVars, demoVars>>

ValidateDigits(h) ==
    /\ handlers[h].pc = "v_digits"
    /\ Advance(h, "v_name",
               IF DigitsRejected(handlers[h].args.last_four_digits)
               THEN Append(ErrorsOf(h), ErrDigits) ELSE ErrorsOf(h))
    /\ UNCHANGED <<agentVars, rngDraws, clientVars, demoVars>>

ValidateName(h) ==
    /\ handlers[h].pc = "v_name"
    /\ Advance(h, "v_address",
               IF NameRejected(handlers[h].args.cardholder_name)
               THEN Append(ErrorsOf(h), ErrName) ELSE ErrorsOf(h))
    /\ UNCHANGED <<agentVars, rngDraws, clientVars, demoVars>>

ValidateAddress(h) ==
    /\ handlers[h].pc = "v_address"
    /\ Advance(h, "v_reason",
               IF AddressRejected(handlers[h].args.address)
               THEN Append(ErrorsOf(h), ErrAddress) ELSE ErrorsOf(h))
    /\ UNCHANGED <<agentVars, rngDraws, clientVars, demoVars>>

ValidateReason(h) ==
    /\ handlers[h].pc = "v_reason"
    /\ Advance(h, "v_return",
               IF ReasonRejected(handlers[h].args.replacement_reason)
               THEN Append(ErrorsOf(h), ErrReason) ELSE ErrorsOf(h))
    /\ UNCHANGED <<agentVars, rngDraws, clientVars, demoVars>>

ValidateReturn(h) ==
    /\ handlers[h].pc = "v_return"
    /\ handlers' = [handlers EXCEPT
                       ![h].pc = "validated",
                       ![h].overlapped = @ \/ \E g \in Handlers \ {h} : InCall(g),
                       ![h].validated = ValidationResult(ErrorsOf(h), handlers[h].args)]
    /\ UNCHANGED <<agentVars, rngDraws, clientVars, demoVars>>

\* ticket_id = "TICKET-" + ''.join(random.choices(...)): the only statement that
\* touches state shared by the handlers, the random generator.
IssueTicketId(h) ==
    /\ handlers[h].pc = "validated"
    /\ \E draw \in SessionDraws :
          handlers' = [handlers EXCEPT
                          ![h].pc = "i_days",
                          ![h].overlapped = @ \/ \E g \in Handlers \ {h} : InCall(g),
                          ![h].ticket_id =
                              TicketPrefix \o choices(TicketAlphabet, TicketIdChars, draw)]
    /\ rngDraws' = rngDraws + TicketIdChars
    /\ UNCHANGED <<agentVars, clientVars, demoVars>>

IssueReturn(h) ==
    /\ handlers[h].pc = "i_days"
    /\ handlers' = [handlers EXCEPT
                       ![h].pc = "done",
                       ![h].overlapped = @ \/ \E g \in Handlers \ {h} : InCall(g),
                       ![h].ticket =
                           TicketResult(handlers[h].ticket_id,
                                        ProcessingDays(handlers[h].args.replacement_reason),
                                        handlers[h].args)]
    /\ UNCHANGED <<agentVars, rngDraws, clientVars, demoVars>>

NextHandlers ==
    \E h \in Handlers :
        \/ HandleRequest(h)
        \/ ValidateBegin(h) \/ ValidateDigits(h) \/ ValidateName(h)
        \/ ValidateAddress(h) \/ ValidateReason(h) \/ ValidateReturn(h)
        \/ IssueTicketId(h) \/ IssueReturn(h)

SpecHandlers == Init /\ [][NextHandlers]_vars

-----------------------------------------------------------------------------
(* AutonomousA2AClient (a2a_client.py) and contact_service_agent            *)
(* (user_agent.py).  The transport is the environment: obtaining the A2A    *)
(* client and sending a message each either return or raise.                *)

MaxClientCalls == 3

TransportOutcomes == {"ok", "error"}

\* httpx refuses to send on a client that has been closed: the send raises.
SendOutcomes(http) == IF http = "open" THEN TransportOutcomes ELSE {"error"}

\* Variant: connect_to_service without its try/except (not the program).
connect_unguarded(c, outcome) ==
    IF outcome = "ok"
    THEN [client |-> [service_client |-> "A2AClient", http |-> "closed"],
          event |-> [op |-> "connect_to_service", fault |-> "none",
                     ret |-> [value |-> TRUE],
                     send_called |-> FALSE, http_open |-> FALSE]]
    ELSE [client |-> c,
          event |-> [op |-> "connect_to_service", fault |-> "error",
                     ret |-> [raised |-> "Exception"],
                     send_called |-> FALSE, http_open |-> FALSE]]

\* connect_to_service: inside `async with httpx.AsyncClient() as client` the A2A
\* client is obtained and stored; `return True` leaves the `async with`, which
\* closes the HTTP client the stored A2A client was built on.  An exception is
\* caught and turned into False.
connect_to_service(c, outcome) ==
    IF outcome = "ok"
    THEN [client |-> [service_client |-> "A2AClient", http |-> "closed"],
          event |-> [op |-> "connect_to_service", fault |-> "none",
                     ret |-> [value |-> TRUE],
                     send_called |-> FALSE, http_open |-> FALSE]]
    ELSE [client |-> c,
          event |-> [op |-> "connect_to_service", fault |-> "error",
                     ret |-> [value |-> FALSE],
                     send_called |-> FALSE, http_open |-> FALSE]]

\* Variant: initiate_card_replacement without the `if not self.service_client`
\* check; the send on None raises inside the try and is reported as a failed
\* exchange (not the program).
initiate_unchecked(c, outcome) ==
    [client |-> c,
     event |-> [op |-> "initiate_card_replacement",
                fault |-> IF outcome = "ok" THEN "none" ELSE "error",
                ret |-> IF outcome = "ok" /\ c.service_client # "None"
                        THEN [success |-> TRUE, status |-> "completed"]
                        ELSE [success |-> FALSE, status |-> "failed"],
                send_called |-> TRUE, http_open |-> c.http = "open"]]

\* initiate_card_replacement: RuntimeError when service_client is unset;
\* otherwise the message goes to service_client.send_message and the outcome is
\* returned as a dict.
initiate_card_replacement(c, outcome) ==
    IF c.service_client = "None"
    THEN [client |-> c,
          event |-> [op |-> "initiate_card_replacement", fault |-> "none",
                     ret |-> [raised |-> "RuntimeError"],
                     send_called |-> FALSE, http_open |-> FALSE]]
    ELSE [client |-> c,
          event |-> [op |-> "initiate_card_replacement",
                     fault |-> IF outcome = "ok" THEN "none" ELSE "error",
                     ret |-> IF outcome = "ok"
                             THEN [success |-> TRUE, status |-> "completed"]
                             ELSE [success |-> FALSE, status |-> "failed"],
                     send_called |-> TRUE, http_open |-> c.http = "open"]]

\* contact_service_agent: the A2A client is obtained and the message sent inside
\* the same `async with`; any exception becomes a communication_failed dict.
contact_service_agent(getOutcome, sendOutcome) ==
    [op |-> "contact_service_agent",
     fault |-> IF getOutcome = "ok" /\ sendOutcome = "ok" THEN "none" ELSE "error",
     ret |-> IF getOutcome = "ok" /\ sendOutcome = "ok"
             THEN [success |-> TRUE, status |-> "message_sent"]
             ELSE [success |-> FALSE, status |-> "communication_failed"],
     send_called |-> getOutcome = "ok", http_open |-> getOutcome = "ok"]

\* `if not await client.connect_to_service(): return`
ProceedAfterConnect(connected) == connected

\* The methods called directly on one client object.
ClientConnect ==
    /\ ipc = "idle" /\ Len(clientLog) < MaxClientCalls
    /\ \E outcome \in TransportOutcomes :
          LET r == connect_to_service(client, outcome)
          IN  client' = r.client /\ clientLog' = Append(clientLog, r.event)
    /\ UNCHANGED <<agentVars, rngDraws, handlers, ipc, demoVars>>

ClientInitiate ==
    /\ ipc = "idle" /\ Len(clientLog) < MaxClientCalls
    /\ \E outcome \in SendOutcomes(client.http) :
          LET r == initiate_card_replacement(client, outcome)
          IN  client' = r.client /\ clientLog' = Append(clientLog, r.event)
    /\ UNCHANGED <<agentVars, rngDraws, handlers, ipc, demoVars>>

ContactServiceAgent ==
    /\ ipc = "idle" /\ Len(clientLog) < MaxClientCalls
    /\ \E getOutcome \in TransportOutcomes :
          \E sendOutcome \in IF getOutcome = "ok" THEN SendOutcomes("open") ELSE {"error"} :
              clientLog' = Append(clientLog, contact_service_agent(getOutcome, sendOutcome))
    /\ UNCHANGED <<agentVars, rngDraws, handlers, client, ipc, demoVars>>

\* run_autonomous_interaction, run as the script's entry point: a new client,
\* connect, and the request only if the connection succeeded.
InteractionBegin ==
    /\ ipc = "idle" /\ clientLog = <<>> /\ dpc = "main"
    /\ client' = NewClient
    /\ ipc' = "connect"
    /\ UNCHANGED <<agentVars, rngDraws, handlers, clientLog, demoVars>>

InteractionConnect ==
    /\ ipc = "connect"
    /\ \E outcome \in TransportOutcomes :
          LET r == connect_to_service(client, outcome)
          IN  /\ client' = r.client
              /\ clientLog' = Append(clientLog, r.event)
              /\ ipc' = IF "raised" \in DOMAIN r.event.ret THEN "raised"
                        ELSE IF ProceedAfterConnect(r.event.ret.value) THEN "initiate"
                        ELSE "returned"
    /\ UNCHANGED <<agentVars, rngDraws, handlers, demoVars>>

InteractionInitiate ==
    /\ ipc = "initiate"
    /\ \E outcome \in SendOutcomes(client.http) :
          LET r == initiate_card_replacement(client, outcome)
          IN  /\ client' = r.client
              /\ clientLog' = Append(clientLog, r.event)
              /\ ipc' = IF "raised" \in DOMAIN r.event.ret THEN "raised" ELSE "returned"
    /\ UNCHANGED <<agentVars, rngDraws, handlers, demoVars>>

NextClient ==
    \/ ClientConnect \/ ClientInitiate \/ ContactServiceAgent
    \/ InteractionBegin \/ InteractionConnect \/ InteractionInitiate

SpecClient == Init /\ [][NextClient]_vars

-----------------------------------------------------------------------------
(* DemoRunner (run_demo.py).  dpc is the position of main()/run_demo(); the  *)
(* agent processes and the signals are the environment.                      *)

Running(a) == procs[a] = "running"

RegisteredAgents == Range(registered)

WaitOutcomes == {"exits", "timeout"}

\* cleanup: every process in self.processes that is still running is
\* terminated; it is killed when it has not exited after the 5 s wait.
cleanup(waits) ==
    [a \in Agents |->
        IF a \in RegisteredAgents /\ procs[a] = "running"
        THEN IF waits[a] = "exits" THEN "terminated" ELSE "killed"
        ELSE procs[a]]

Cleanup ==
    /\ \E waits \in [Agents -> WaitOutcomes] : procs' = cleanup(waits)
    /\ cleanups' = cleanups + 1

\* The statements of run_demo's try block, in order.
AfterStart(a) == IF a = "service_agent.py" THEN "start_user" ELSE "sleep"

AfterCheck(a) == IF a = "service_agent.py" THEN "check_user" ELSE "import"

StartPosition(a) == IF a = "service_agent.py" THEN "start_service" ELSE "start_user"

AppendPosition(a) == IF a = "service_agent.py" THEN "append_service" ELSE "append_user"

CheckPosition(a) == IF a = "service_agent.py" THEN "check_service" ELSE "check_user"

InTry ==
    {StartPosition(a) : a \in Agents} \cup {AppendPosition(a) : a \in Agents}
        \cup {CheckPosition(a) : a \in Agents} \cup {"sleep", "import", "interaction"}

\* main(): the handlers are installed, then run_demo is awaited.
RunDemoBegin ==
    /\ dpc = "main"
    /\ dpc' = "start_service"
    /\ UNCHANGED <<agentVars, rngDraws, handlers, clientVars, procs, registered, dresult, cleanups>>

\* start_agent, up to and including subprocess.Popen: the child exists once
\* Popen has returned; an exception makes start_agent return None and
\* run_demo return False.
StartAgent(a) ==
    /\ dpc = StartPosition(a)
    /\ \E outcome \in {"ok", "error"} :
          IF outcome = "ok"
          THEN /\ procs' = [procs EXCEPT ![a] = "running"]
               /\ dpc' = AppendPosition(a)
               /\ UNCHANGED dresult
          ELSE /\ dresult' = "False"
               /\ dpc' = "finally"
               /\ UNCHANGED procs
    /\ UNCHANGED <<agentVars, rngDraws, handlers, clientVars, registered, cleanups>>

\* start_agent, after Popen: self.processes.append(process); return process.
RegisterAgent(a) ==
    /\ dpc = AppendPosition(a)
    /\ registered' = Append(registered, a)
    /\ dpc' = AfterStart(a)
    /\ UNCHANGED <<agentVars, rngDraws, handlers, clientVars, procs, dresult, cleanups>>

\* await asyncio.sleep(10)
Sleep ==
    /\ dpc = "sleep"
    /\ dpc' = "check_service"
    /\ UNCHANGED <<agentVars, rngDraws, handlers, clientVars, procs, registered, dresult, cleanups>>

\* `if process.poll() is not None: return False`
CheckAgent(a) ==
    /\ dpc = CheckPosition(a)
    /\ IF Running(a)
       THEN dpc' = AfterCheck(a) /\ UNCHANGED dresult
       ELSE dpc' = "finally" /\ dresult' = "False"
    /\ UNCHANGED <<agentVars, rngDraws, handlers, clientVars, procs, registered, cleanups>>

\* `from a2a_client import run_autonomous_interaction` and the call of it; a
\* failing import is caught by `except Exception`.
ImportAndCall ==
    /\ dpc = "import"
    /\ \E outcome \in {"ok", "error"} :
          IF outcome = "ok"
          THEN /\ client' = NewClient /\ ipc' = "connect"
               /\ dpc' = "interaction"
               /\ UNCHANGED dresult
          ELSE /\ dresult' = "False"
               /\ dpc' = "finally"
               /\ UNCHANGED <<client, ipc>>
    /\ UNCHANGED <<agentVars, rngDraws, handlers, clientLog, procs, registered, cleanups>>

\* `await run_autonomous_interaction()` is over: run_demo goes on to
\* `return True`; an exception out of it is caught and gives False.
InteractionEnd ==
    /\ dpc = "interaction" /\ ipc \in {"returned", "raised"}
    /\ dresult' = IF ipc = "returned" THEN "True" ELSE "False"
    /\ dpc' = "finally"
    /\ UNCHANGED <<agentVars, rngDraws, handlers, clientVars, procs, registered, cleanups>>

\* `finally: self.cleanup()`, on a return and on a SystemExit passing through.
Finally ==
    /\ dpc \in {"finally", "unwinding"}
    /\ Cleanup
    /\ dpc' = IF dpc = "finally" THEN "returned" ELSE "exited"
    /\ UNCHANGED <<agentVars, rngDraws, handlers, clientVars, registered, dresult>>

\* main() reports the result and the program ends.
MainEnd ==
    /\ dpc = "returned"
    /\ dpc' = "exited"
    /\ UNCHANGED <<agentVars, rngDraws, handlers, clientVars, procs, registered, dresult, cleanups>>

\* signal_handler, run between any two statements of the main thread:
\* cleanup(), then sys.exit(0), whose SystemExit passes through run_demo's
\* finally when it is raised inside the try block.
SignalHandler ==
    /\ dpc # "exited"
    /\ Cleanup
    /\ dpc' = IF dpc \in InTry THEN "unwinding" ELSE "exited"
    /\ UNCHANGED <<agentVars, rngDraws, handlers, clientVars, registered, dresult>>

\* An agent process ends on its own (a missing API key, a port in use).
AgentExits(a) ==
    /\ dpc # "exited" /\ Running(a)
    /\ procs' = [procs EXCEPT ![a] = "exited"]
    /\ UNCHANGED <<agentVars, rngDraws, handlers, clientVars, dpc, registered, dresult, cleanups>>

NextDemo ==
    \/ RunDemoBegin
    \/ \E a \in Agents : StartAgent(a)
    \/ \E a \in Agents : RegisterAgent(a)
    \/ Sleep
    \/ \E a \in Agents : CheckAgent(a)
    \/ ImportAndCall
    \/ InteractionConnect
    \/ InteractionInitiate
    \/ InteractionEnd
    \/ Finally
    \/ MainEnd
    \/ SignalHandler
    \/ \E a \in Agents : AgentExits(a)

SpecDemo == Init /\ [][NextDemo]_vars

-----------------------------------------------------------------------------
(* Vocabulary of the properties, stated without the operators above        *)

ValidateCalls == {i \in 1..Len(calls) : calls[i].tool = "validate_card_details"}
IssueCalls == {i \in 1..Len(calls) : calls[i].tool = "issue_replacement_ticket"}

AsciiDigits == {"0","1","2","3","4","5","6","7","8","9"}

\* Index of the first character that is not whitespace (Len(s) + 1 if none) and
\* of the last one (0 if none).
FirstKept(s) ==
    CHOOSE i \in 1..(Len(s) + 1) :
        /\ i = Len(s) + 1 \/ s[i] \notin WhitespaceChars
        /\ \A j \in 1..(i - 1) : s[j] \in WhitespaceChars
LastKept(s) ==
    CHOOSE j \in 0..Len(s) :
        /\ j = 0 \/ s[j] \notin WhitespaceChars
        /\ \A k \in (j + 1)..Len(s) : s[k] \in WhitespaceChars
Trimmed(s) == SubSeq(s, FirstKept(s), LastKept(s))

UpperOf(c) ==
    IF \E i \in 1..26 : ascii_lowercase[i] = c
    THEN ascii_uppercase[CHOOSE i \in 1..26 : ascii_lowercase[i] = c]
    ELSE c
\* s, lowercased, is the lowercase word w.
LowercasesTo(s, w) ==
    Len(s) = Len(w) /\ \A i \in 1..Len(w) : s[i] = w[i] \/ s[i] = UpperOf(w[i])

Lost == <<"l","o","s","t">>
Stolen == <<"s","t","o","l","e","n">>
Damaged == <<"d","a","m","a","g","e","d">>
Expired == <<"e","x","p","i","r","e","d">>
AllowedReasons == {Lost, Stolen, Damaged, Expired}

\* The four field constraints of a ReplacementRequest.
DigitsOk(d) == Len(d) = 4 /\ \A i \in 1..Len(d) : d[i] \in AsciiDigits
NameOk(n) == Len(Trimmed(n)) >= 2
AddressOk(a) == Len(Trimmed(a)) >= 10
ReasonOk(r) == \E w \in AllowedReasons : LowercasesTo(r, w)
AllConstraintsHold(args) ==
    /\ DigitsOk(args.last_four_digits)
    /\ NameOk(args.cardholder_name)
    /\ AddressOk(args.address)
    /\ ReasonOk(args.replacement_reason)

\* One message per failing constraint, in the order digits, name, address, reason.
ExpectedErrors(args) ==
    (IF DigitsOk(args.last_four_digits) THEN <<>> ELSE <<ErrDigits>>)
    \o (IF NameOk(args.cardholder_name) THEN <<>> ELSE <<ErrName>>)
    \o (IF AddressOk(args.address) THEN <<>> ELSE <<ErrAddress>>)
    \o (IF ReasonOk(args.replacement_reason) THEN <<>> ELSE <<ErrReason>>)

ValidKeys == {"valid", "status"} \cup ArgKeys
InvalidKeys == {"valid", "status", "errors"}

IsValidResult(res) == res.valid = TRUE /\ res.status = "validated"
IsInvalidResult(res) ==
    /\ res.valid = FALSE /\ res.status = "validation_failed"
    /\ "errors" \in DOMAIN res

\* The fixed table of processing days.
TableDays(w) ==
    CASE w = Lost -> 3 [] w = Stolen -> 1 [] w = Damaged -> 2 [] w = Expired -> 5

\* Issue call i was made with the normalized fields of an earlier validation
\* (call j) that accepted the request.
IssuedFromValidation(i, j) ==
    /\ i \in IssueCalls /\ j \in ValidateCalls /\ j < i
    /\ calls[j].result.valid
    /\ calls[i].args = [k \in ArgKeys |-> calls[j].result[k]]

-----------------------------------------------------------------------------
(* Properties                                                              *)

\* C1: validate_card_details returns the valid result (valid=True, status
\* "validated") if and only if all four constraints hold: exactly 4 ASCII digits,
\* trimmed name of length >= 2, trimmed address of length >= 10, reason that
\* lowercases to lost, stolen, damaged or expired; otherwise the invalid result.
C1_ValidIffAllConstraints ==
    \A i \in ValidateCalls :
        IF AllConstraintsHold(calls[i].args)
        THEN IsValidResult(calls[i].result)
        ELSE IsInvalidResult(calls[i].result)

\* C2: when at least one constraint fails, the errors list holds exactly one
\* message for each failing constraint and none for a passing one, in the order
\* digits, name, address, reason.
C2_OneErrorPerFailingConstraint ==
    \A i \in ValidateCalls :
        ~AllConstraintsHold(calls[i].args) =>
            /\ "errors" \in DOMAIN calls[i].result
            /\ calls[i].result.errors = ExpectedErrors(calls[i].args)

\* C3: for an input satisfying all four constraints the valid result carries the
\* name and the address trimmed, the reason lowercased and the digits unchanged.
C3_ValidResultIsNormalized ==
    \A i \in ValidateCalls :
        AllConstraintsHold(calls[i].args) =>
            LET a == calls[i].args
                res == calls[i].result
            IN  /\ IsValidResult(res)
                /\ res.last_four_digits = a.last_four_digits
                /\ res.cardholder_name = Trimmed(a.cardholder_name)
                /\ res.address = Trimmed(a.address)
                /\ res.replacement_reason \in AllowedReasons
                /\ LowercasesTo(a.replacement_reason, res.replacement_reason)

\* C3 witness: an accepted input whose name and address carry surrounding
\* whitespace and whose reason is not lowercase.
C3_Witness ==
    \E i \in ValidateCalls :
        LET a == calls[i].args
        IN  /\ AllConstraintsHold(a)
            /\ Trimmed(a.cardholder_name) # a.cardholder_name
            /\ Trimmed(a.address) # a.address
            /\ a.replacement_reason \notin AllowedReasons

\* C4: a ticket issued on the normalized fields of an accepted request has
\* estimated_processing_days equal to the table value of its reason (lost=3,
\* stolen=1, damaged=2, expired=5), so never a value outside {1,2,3,5}.
C4_DaysFromTable ==
    \A i \in IssueCalls :
        (\E j \in ValidateCalls : IssuedFromValidation(i, j)) =>
            /\ calls[i].args.replacement_reason \in AllowedReasons
            /\ calls[i].result.estimated_processing_days
                  = TableDays(calls[i].args.replacement_reason)
            /\ calls[i].result.estimated_processing_days \in {1, 2, 3, 5}

\* C4 witness: a ticket issued after validation for an expired card, 5 days.
C4_Witness ==
    \E i \in IssueCalls, j \in ValidateCalls :
        /\ IssuedFromValidation(i, j)
        /\ calls[i].args.replacement_reason = Expired
        /\ calls[i].result.estimated_processing_days = 5

\* C5: every ticket_id is "TICKET-" followed by exactly 8 characters of A-Z0-9,
\* 15 characters in all, whatever the arguments and the random draws.
C5_TicketIdFormat ==
    \A i \in IssueCalls :
        LET id == calls[i].result.ticket_id
        IN  /\ Len(id) = 15
            /\ SubSeq(id, 1, 7) = <<"T","I","C","K","E","T","-">>
            /\ \A k \in 8..15 : id[k] \in Range(ascii_uppercase) \cup AsciiDigits

\* C5 witness: a ticket id whose random part starts with a digit, ends with a
\* letter; issued for arguments the validator rejects.
C5_Witness ==
    \E i \in IssueCalls :
        LET id == calls[i].result.ticket_id
        IN  /\ id[8] \in AsciiDigits
            /\ id[15] \in Range(ascii_uppercase)
            /\ ~AllConstraintsHold(calls[i].args)

\* C6: every call of issue_replacement_ticket is preceded by a call of
\* validate_card_details on the same four fields that returned valid=True, and a
\* request whose validation failed never results in a ticket.
C6_IssueOnlyAfterValidation ==
    /\ \A i \in IssueCalls :
          \E j \in ValidateCalls :
              /\ j < i /\ calls[j].result.valid
              /\ \/ calls[i].args = calls[j].args
                 \/ calls[i].args = [k \in ArgKeys |-> calls[j].result[k]]
    /\ \A j \in ValidateCalls :
          ~calls[j].result.valid =>
              \A i \in IssueCalls : calls[i].result.status # "issued"

\* C7: the ticket issued for a validated request has status "issued" and its
\* cardholder_name, last_four_digits and replacement_reason are the validated
\* request's; a reason given in mixed case appears lowercased in the ticket, with
\* the processing days of the lowercase reason.
C7_TicketCopiesValidatedRequest ==
    \A i \in IssueCalls, j \in ValidateCalls :
        IssuedFromValidation(i, j) =>
            LET raw == calls[j].args
                ticket == calls[i].result
            IN  /\ ticket.status = "issued"
                /\ ticket.last_four_digits = raw.last_four_digits
                /\ ticket.cardholder_name = Trimmed(raw.cardholder_name)
                /\ ticket.replacement_reason \in AllowedReasons
                /\ LowercasesTo(raw.replacement_reason, ticket.replacement_reason)
                /\ ticket.estimated_processing_days
                      = TableDays(ticket.replacement_reason)

\* C7 witness: the request gave "STOLEN"; the ticket says "stolen", 1 day.
C7_Witness ==
    \E i \in IssueCalls, j \in ValidateCalls :
        /\ IssuedFromValidation(i, j)
        /\ calls[j].args.replacement_reason = <<"S","T","O","L","E","N">>
        /\ calls[i].result.replacement_reason = Stolen
        /\ calls[i].result.estimated_processing_days = 1

\* C8: a validation result is all-or-nothing: either valid=False, status
\* "validation_failed", a non-empty errors list and none of the request fields,
\* or valid=True, status "validated", the four fields and no errors entry.
C8_AllOrNothing ==
    \A i \in ValidateCalls :
        LET res == calls[i].result
        IN  \/ /\ DOMAIN res = InvalidKeys
               /\ res.valid = FALSE
               /\ res.status = "validation_failed"
               /\ res.errors # <<>>
            \/ /\ DOMAIN res = ValidKeys
               /\ res.valid = TRUE
               /\ res.status = "validated"

\* C8 witness: an input that passes three of the four constraints and fails one;
\* the result carries the single error and no field.
C8_Witness ==
    \E i \in ValidateCalls :
        /\ Len(ExpectedErrors(calls[i].args)) = 1
        /\ DOMAIN calls[i].result = InvalidKeys
        /\ Len(calls[i].result.errors) = 1

C10_IssueDoesNotRevalidate ==
    \A i \in IssueCalls :
        ~ReasonOk(calls[i].args.replacement_reason) =>
            /\ calls[i].result.status = "issued"
            /\ calls[i].result.estimated_processing_days = 3

\* C10 witness: ("48", "J", "short", "misplaced") gets a ticket.
C10_Witness ==
    \E i \in IssueCalls :
        /\ calls[i].args = Args(<<"4","8">>, <<"J">>, <<"s","h","o","r","t">>,
                                <<"m","i","s","p","l","a","c","e","d">>)
        /\ calls[i].result.status = "issued"
        /\ calls[i].result.estimated_processing_days = 3

\* The next tool call is a ticket issuance that returns the id of ticket i again.
IssueSameIdAs(i) ==
    /\ ToolIssueRaw
    /\ calls'[Len(calls) + 1].result.ticket_id = calls[i].result.ticket_id

\* C11: issuance keeps no registry of issued ids and checks no uniqueness: after
\* any ticket, as long as the agent can still call the tool, an issuance that
\* returns the same ticket_id again is possible (and returns status "issued").
C11_NoUniquenessCheck ==
    \A i \in IssueCalls :
        /\ calls[i].result.status = "issued"
        /\ (fields.received /\ Len(calls) < MaxCalls) => ENABLED IssueSameIdAs(i)

\* C11 witness: two issued tickets carry the same ticket_id.
C11_Witness ==
    \E i, j \in IssueCalls :
        /\ i < j
        /\ calls[i].result.ticket_id = calls[j].result.ticket_id
        /\ calls[i].result.status = "issued" /\ calls[j].result.status = "issued"

\* What the calls of handler h return when they run alone.
AloneValidated(h) ==
    validate_card_details(handlers[h].args.last_four_digits,
                          handlers[h].args.cardholder_name,
                          handlers[h].args.address,
                          handlers[h].args.replacement_reason)
AloneTicket(h) ==
    issue_replacement_ticket(handlers[h].args.last_four_digits,
                             handlers[h].args.cardholder_name,
                             handlers[h].args.address,
                             handlers[h].args.replacement_reason,
                             DrawOutcome(0, 0))
TicketKeysNotRandom ==
    {"status", "cardholder_name", "last_four_digits", "replacement_reason",
     "estimated_processing_days"}

\* C12: whatever the interleaving of the requests handled concurrently, the
\* result of each validate call and (apart from the random characters of the
\* ticket_id) of each issue call is the result of the same call run alone on
\* that call's own four arguments.
C12_NoCrossRequestState ==
    \A h \in Handlers :
        /\ handlers[h].validated # NoResult =>
              handlers[h].validated = AloneValidated(h)
        /\ handlers[h].ticket # NoResult =>
              /\ \A k \in TicketKeysNotRandom : handlers[h].ticket[k] = AloneTicket(h)[k]
              /\ Len(handlers[h].ticket.ticket_id) = Len(AloneTicket(h).ticket_id)
              /\ DOMAIN handlers[h].ticket = DOMAIN AloneTicket(h)

\* C12 witness: two handlers finished different requests, one rejected with four
\* errors and one accepted, and each ran statements while the other was inside
\* a call.
C12_Witness ==
    \E g, h \in Handlers :
        /\ handlers[g].pc = "done" /\ handlers[h].pc = "done"
        /\ handlers[g].overlapped /\ handlers[h].overlapped
        /\ ~handlers[g].validated.valid /\ Len(handlers[g].validated.errors) = 4
        /\ handlers[h].validated.valid

-----------------------------------------------------------------------------
(* The A2A client and the demo runner                                        *)

ClientEvents == 1..Len(clientLog)

ConnectEvents == {i \in ClientEvents : clientLog[i].op = "connect_to_service"}

InitiateEvents == {i \in ClientEvents : clientLog[i].op = "initiate_card_replacement"}

ContactEvents == {i \in ClientEvents : clientLog[i].op = "contact_service_agent"}

Raised(e) == "raised" \in DOMAIN e.ret

ConnectedBefore(i) == \E j \in ConnectEvents : j < i /\ clientLog[j].ret = [value |-> TRUE]

\* C13: a transport failure comes back as a value, never as an exception:
\* connect_to_service returns False when obtaining the client fails and True
\* otherwise; initiate_card_replacement on a connected client returns
\* success=False/"failed" when the send fails and success=True/"completed"
\* otherwise; contact_service_agent returns success=False/"communication_failed"
\* on any failure.
C13_FailuresAreValues ==
    /\ \A i \in ConnectEvents :
          clientLog[i].ret = [value |-> clientLog[i].fault = "none"]
    /\ \A i \in InitiateEvents :
          ConnectedBefore(i) =>
              clientLog[i].ret = IF clientLog[i].fault = "none"
                                 THEN [success |-> TRUE, status |-> "completed"]
                                 ELSE [success |-> FALSE, status |-> "failed"]
    /\ \A i \in ContactEvents :
          clientLog[i].fault # "none" =>
              clientLog[i].ret = [success |-> FALSE, status |-> "communication_failed"]
    /\ \A i \in ClientEvents : clientLog[i].fault # "none" => ~Raised(clientLog[i])

\* C13 witness: on one client object a connect failed and returned False, a
\* later connect succeeded, and the send of the request failed and was
\* returned as a "failed" dict.
C13_Witness ==
    \E i \in ConnectEvents, k \in InitiateEvents :
        /\ clientLog[i].fault = "error" /\ clientLog[i].ret = [value |-> FALSE]
        /\ ConnectedBefore(k)
        /\ clientLog[k].fault = "error"
        /\ clientLog[k].ret = [success |-> FALSE, status |-> "failed"]

\* C15: the request is sent only after a successful connect_to_service:
\* initiate_card_replacement on a client whose service_client is unset raises
\* RuntimeError and sends nothing, and run_autonomous_interaction returns
\* without calling initiate_card_replacement when the connect returned False.
C15_SendOnlyAfterConnect ==
    /\ \A i \in InitiateEvents :
          /\ clientLog[i].send_called => ConnectedBefore(i)
          /\ ~ConnectedBefore(i) =>
                /\ clientLog[i].ret = [raised |-> "RuntimeError"]
                /\ ~clientLog[i].send_called
    /\ (ipc # "idle" /\ clientLog # <<>> /\ clientLog[1].ret = [value |-> FALSE]) =>
          /\ Len(clientLog) = 1
          /\ ipc = "returned"

\* C15 witness: the request was tried before any successful connect and raised
\* RuntimeError without a send, and was sent after the connect succeeded.
C15_Witness ==
    \E i, k \in InitiateEvents :
        /\ i < k
        /\ ~ConnectedBefore(i) /\ Raised(clientLog[i]) /\ ~clientLog[i].send_called
        /\ ConnectedBefore(k) /\ clientLog[k].send_called

\* C15, the script: run_autonomous_interaction has returned after a failed
\* connect and initiate_card_replacement was never called.
C15_ReturnedWithoutRequest ==
    /\ ipc = "returned"
    /\ clientLog # <<>> /\ clientLog[1].ret = [value |-> FALSE]
    /\ InitiateEvents = {}

\* C17: whenever initiate_card_replacement hands its message to
\* service_client, the HTTP client that service_client was built on by
\* connect_to_service is still open.
C17_HttpOpenAtSend ==
    \A i \in InitiateEvents : clientLog[i].send_called => clientLog[i].http_open

Ended == dpc \in {"returned", "exited"}

\* C14: however run_demo ends (a return, an exception, a signal), cleanup has
\* run and no agent process that was started is left running: each was sent
\* terminate, and kill when it had not exited after 5 seconds.
C14_CleanupOnEveryExit ==
    Ended => /\ cleanups >= 1
             /\ \A a \in Agents : ~Running(a)

InteractionSucceeded ==
    /\ \E i \in ConnectEvents : clientLog[i].ret = [value |-> TRUE]
    /\ \E i \in InitiateEvents : clientLog[i].ret = [success |-> TRUE, status |-> "completed"]

InteractionFailed ==
    \/ \E i \in ConnectEvents : clientLog[i].ret = [value |-> FALSE]
    \/ \E i \in InitiateEvents : clientLog[i].ret = [success |-> FALSE, status |-> "failed"]

\* C16: run_demo returns True only if connect_to_service returned True and
\* initiate_card_replacement returned success=True; after a failed connection
\* or a failed exchange it returns False.
C16_TrueOnlyOnSuccess ==
    /\ dresult = "True" => InteractionSucceeded
    /\ (dresult # "none" /\ InteractionFailed) => dresult = "False"

====
